---- MODULE Spec2Model ----
(***************************************************************************)
(* Model of src/app.py: the rebalancing backtest run_strategy, the         *)
(* buy-and-hold benchmark run_buyhold, and the main run block that guards  *)
(* them.                                                                   *)
(*                                                                         *)
(* Numbers.  The program computes in Python floats.  The model computes in *)
(* exact rationals <<n, d>> (d > 0, lowest terms), so every comparison the *)
(* code makes (deviation >= trigger, diff > 0, cash >= cost) is decided on *)
(* the exact value of the expression the code evaluates.  A division by    *)
(* zero raises ZeroDivisionError, as Python's float division does.         *)
(*                                                                         *)
(* Dates.  A price series is a sequence; the date of its i-th point is i   *)
(* (fetch_data returns series indexed by distinct, increasing dates).      *)
(*                                                                         *)
(* Specifications.  Spec applies run_strategy to inputs drawn from small   *)
(* sets, valid and invalid; ScenarioSpec applies it to the two worked      *)
(* scenarios with their own amounts; MainSpec is the page: sidebar, fetch, *)
(* length check, then run_strategy, run_buyhold and calc_stats.            *)
(***************************************************************************)
EXTENDS Integers, Sequences, FiniteSets, TLC

VARIABLES prices, init_cash, stock_ratio, trigger, commission, tax,
          cash, shares, rebalances, equity, pc, error,
          mpc, s_lev, s_bm, eq_bm, stats, message

args   == <<prices, init_cash, stock_ratio, trigger, commission, tax>>
locals == <<cash, shares, rebalances, equity, pc, error>>
main   == <<mpc, s_lev, s_bm, eq_bm, stats, message>>
vars   == <<args, locals, main>>

----------------------------------------------------------------------------
(* Exact arithmetic standing for the float operators of the source.        *)

Abs(n) == IF n < 0 THEN -n ELSE n

RECURSIVE GCD(_, _)
GCD(a, b) == IF b = 0 THEN a ELSE GCD(b, a % b)

\* the rational n/d in lowest terms with a positive denominator (d # 0)
Norm(n, d) ==
    LET g == GCD(Abs(n), Abs(d))
        s == IF d < 0 THEN -1 ELSE 1
    IN  <<s * (n \div g), s * (d \div g)>>

Q(n)    == <<n, 1>>
Zero    == Q(0)
One     == Q(1)
IsZero(x) == x[1] = 0

RNeg(x) == <<-x[1], x[2]>>
RAbs(x) == <<Abs(x[1]), x[2]>>

RAdd(x, y) ==
    LET g == GCD(x[2], y[2])
    IN  Norm(x[1] * (y[2] \div g) + y[1] * (x[2] \div g), (x[2] \div g) * y[2])

RSub(x, y) == RAdd(x, RNeg(y))

RMul(x, y) ==
    IF x[1] = 0 \/ y[1] = 0 THEN Zero
    ELSE LET g1 == GCD(Abs(x[1]), y[2])
             g2 == GCD(Abs(y[1]), x[2])
         IN  <<(x[1] \div g1) * (y[1] \div g2), (x[2] \div g2) * (y[2] \div g1)>>

\* y # 0
RDiv(x, y) == RMul(x, IF y[1] < 0 THEN <<-y[2], -y[1]>> ELSE <<y[2], y[1]>>)

RLeq(x, y) ==
    LET g == GCD(x[2], y[2])
    IN  x[1] * (y[2] \div g) <= y[1] * (x[2] \div g)

RLt(x, y) == ~RLeq(y, x)
RGeq(x, y) == RLeq(y, x)
RGt(x, y) == ~RLeq(x, y)

\* round(x, 0): nearest integer, ties to the even one
RoundHalfEven(x) ==
    LET f == x[1] \div x[2]
        r == x[1] % x[2]
    IN  IF r < x[2] - r THEN f
        ELSE IF r > x[2] - r THEN f + 1
        ELSE IF f % 2 = 0 THEN f ELSE f + 1

\* round(x, 2)
Round2(x) == Norm(RoundHalfEven(RMul(x, Q(100))), 100)

\* f'{x:.1%}': the percentage to one decimal, kept as an integer number of
\* tenths of a percent (x * 1000 rounded, by long division digit by digit)
Percent1(x) ==
    LET d  == x[2]
        r0 == x[1] % d
        r1 == (r0 * 10) % d
        r2 == (r1 * 10) % d
        r3 == (r2 * 10) % d
        f  == (x[1] \div d) * 1000 + ((r0 * 10) \div d) * 100
              + ((r1 * 10) \div d) * 10 + ((r2 * 10) \div d)
    IN  IF r3 < d - r3 THEN f
        ELSE IF r3 > d - r3 THEN f + 1
        ELSE IF f % 2 = 0 THEN f ELSE f + 1

----------------------------------------------------------------------------
(* Bounds and input sets of the direct calls of run_strategy.              *)

MaxLen == 3

PriceSet == {1, 2, 16}

SeqsUpTo(S, n) == UNION {[1..k -> S] : k \in 0..n}

InitCashSet   == {1000, 0, -1000}
RatioSet      == {<<0, 1>>, <<1, 2>>, <<3, 4>>}
TriggerSet    == {<<1, 20>>, <<1, 10>>, <<1, 2>>}
CommissionSet == {<<-1, 4>>, <<0, 1>>, <<1, 4>>, <<1, 2>>}
TaxSet        == {<<0, 1>>, <<3, 4>>}

----------------------------------------------------------------------------
(* run_strategy, expression by expression.                                 *)

\* cash_ratio = 1 - stock_ratio; cash = init_cash * cash_ratio
InitialCash(ic, r) == RMul(Q(ic), RSub(One, r))

\* variant: no commission on the entry purchase
InitialSharesNoCommission(ic, r, c, price0) == RDiv(RMul(Q(ic), r), price0)

\* shares = (init_cash * stock_ratio) * (1 - commission) / price0
InitialShares(ic, r, c, price0) ==
    RDiv(RMul(RMul(Q(ic), r), RSub(One, c)), price0)

StockVal(sh, price) == RMul(sh, price)
Total(sh, ca, price) == RAdd(StockVal(sh, price), ca)
CurRatio(sh, ca, price) == RDiv(StockVal(sh, price), Total(sh, ca, price))
Deviation(cur_ratio, r) == RDiv(RAbs(RSub(cur_ratio, r)), r)

\* variant: the first-period exclusion dropped
FiresEveryPeriod(deviation, trig, date, first) == RGeq(deviation, trig)

\* deviation >= trigger and date != prices.index[0]
Fires(deviation, trig, date, first) == RGeq(deviation, trig) /\ date # first

\* target = total * stock_ratio; diff = target - stock_val
Diff(sh, ca, price, r) == RSub(RMul(Total(sh, ca, price), r), StockVal(sh, price))

\* variant: the commission charged twice on a buy
CostChargedTwice(diff, c) == RDiv(RDiv(diff, RSub(One, c)), RSub(One, c))

\* variants of the cash guard: no guard, and a guard on the sign of cash only
CanBuyAlways(ca, cost) == TRUE
CanBuyAnyCash(ca, cost) == RGeq(ca, Zero)

NewSh(diff, price, c) == RMul(RDiv(diff, price), RSub(One, c))
Cost(diff, c) == RDiv(diff, RSub(One, c))
CanBuy(ca, cost) == RGeq(ca, cost)

\* variants of the sell proceeds: the price factor dropped, and the tax added
\* instead of deducted
RevenuePerShare(sell_sh, price, c, t) == RMul(sell_sh, RSub(RSub(One, c), t))
RevenueSignSlip(sell_sh, price, c, t) ==
    RMul(RMul(sell_sh, price), RAdd(RSub(One, c), t))

SellSh(diff, price) == RDiv(RAbs(diff), price)
Revenue(sell_sh, price, c, t) == RMul(RMul(sell_sh, price), RSub(RSub(One, c), t))

BuyEvent(date, price, diff, cur_ratio) ==
    [date |-> date, action |-> "buy", price |-> Round2(price),
     amount |-> RoundHalfEven(diff), ratio |-> Percent1(cur_ratio)]

SellEvent(date, price, diff, cur_ratio) ==
    [date |-> date, action |-> "sell", price |-> Round2(price),
     amount |-> RoundHalfEven(RAbs(diff)), ratio |-> Percent1(cur_ratio)]

EquityPoint(date, sh, ca, price) ==
    [date |-> date, value |-> RAdd(RMul(sh, price), ca),
     stock_value |-> RMul(sh, price), cash |-> ca]

\* the period the loop is at, and whether the loop body raises there
Period == Len(equity) + 1

PeriodFires(sh, ca, price, date) ==
    Fires(Deviation(CurRatio(sh, ca, price), stock_ratio), trigger, date, 1)

PeriodRaises(sh, ca, price, date) ==
    \/ IsZero(Total(sh, ca, price))                       \* stock_val / total
    \/ IsZero(stock_ratio)                                \* ... / stock_ratio
    \/ /\ PeriodFires(sh, ca, price, date)
       /\ RGt(Diff(sh, ca, price, stock_ratio), Zero)
       /\ IsZero(RSub(One, commission))                   \* diff / (1 - commission)

\* lines 92-98; prices.iloc[0] needs a first point
Enter ==
    /\ pc = "call"
    /\ prices # <<>>
    /\ cash' = InitialCash(init_cash, stock_ratio)
    /\ shares' = InitialShares(init_cash, stock_ratio, commission, Q(prices[1]))
    /\ rebalances' = <<>>
    /\ equity' = <<>>
    /\ pc' = "loop"
    /\ UNCHANGED <<args, error, main>>

EnterRaises ==
    /\ pc = "call"
    /\ prices = <<>>
    /\ pc' = "raised"
    /\ error' = "IndexError"
    /\ UNCHANGED <<args, cash, shares, rebalances, equity, main>>

\* one pass of the loop body, lines 100-130
RunPeriod ==
    /\ pc = "loop"
    /\ Period <= Len(prices)
    /\ LET date      == Period
           price     == Q(prices[Period])
       IN  /\ ~PeriodRaises(shares, cash, price, date)
           /\ LET cur_ratio == CurRatio(shares, cash, price)
                  diff      == Diff(shares, cash, price, stock_ratio)
                  fires     == PeriodFires(shares, cash, price, date)
                  buy       == fires /\ RGt(diff, Zero)
                                /\ CanBuy(cash, Cost(diff, commission))
                  sell      == fires /\ ~RGt(diff, Zero)
                  sh2       == IF buy THEN RAdd(shares, NewSh(diff, price, commission))
                               ELSE IF sell THEN RSub(shares, SellSh(diff, price))
                               ELSE shares
                  ca2       == IF buy THEN RSub(cash, Cost(diff, commission))
                               ELSE IF sell
                               THEN RAdd(cash, Revenue(SellSh(diff, price), price,
                                                       commission, tax))
                               ELSE cash
              IN  /\ shares' = sh2
                  /\ cash' = ca2
                  /\ rebalances' =
                        IF buy THEN Append(rebalances, BuyEvent(date, price, diff, cur_ratio))
                        ELSE IF sell
                        THEN Append(rebalances, SellEvent(date, price, diff, cur_ratio))
                        ELSE rebalances
                  /\ equity' = Append(equity, EquityPoint(date, sh2, ca2, price))
    /\ UNCHANGED <<args, pc, error, main>>

PeriodRaisesError ==
    /\ pc = "loop"
    /\ Period <= Len(prices)
    /\ PeriodRaises(shares, cash, Q(prices[Period]), Period)
    /\ pc' = "raised"
    /\ error' = "ZeroDivisionError"
    /\ UNCHANGED <<args, cash, shares, rebalances, equity, main>>

\* variant: the loop left one period early
ReturnEarly ==
    /\ pc = "loop"
    /\ Period > Len(prices) - 1
    /\ pc' = "done"
    /\ UNCHANGED <<args, cash, shares, rebalances, equity, error, main>>

\* lines 132-133
Return ==
    /\ pc = "loop"
    /\ Period > Len(prices)
    /\ pc' = "done"
    /\ UNCHANGED <<args, cash, shares, rebalances, equity, error, main>>

----------------------------------------------------------------------------
(* Direct calls: run_strategy applied to inputs drawn from the sets above. *)

Init ==
    /\ prices \in SeqsUpTo(PriceSet, MaxLen)
    /\ init_cash \in InitCashSet
    /\ stock_ratio \in RatioSet
    /\ trigger \in TriggerSet
    /\ commission \in CommissionSet
    /\ tax \in TaxSet
    /\ cash = Zero /\ shares = Zero /\ rebalances = <<>> /\ equity = <<>>
    /\ pc = "call" /\ error = "none"
    /\ mpc = "direct" /\ s_lev = <<>> /\ s_bm = <<>> /\ eq_bm = <<>>
    /\ stats = <<>> /\ message = "none"

Next == Enter \/ EnterRaises \/ RunPeriod \/ PeriodRaisesError \/ Return

Spec == Init /\ [][Next]_vars

----------------------------------------------------------------------------
(* The two worked scenarios, with their own amounts: 1,000,000 of capital, *)
(* half of it in stock, prices 100 and 200.  Family "A" is a price series  *)
(* constant at 100, of every length up to ScenarioLen; family "B" is every *)
(* series of one or two periods over 100 and 200.                          *)

ScenarioLen == 5

ScenarioTriggers == {<<1, 20>>, <<1, 10>>, <<1, 9>>, <<1, 2>>, <<1, 1>>}

ScenarioInputs ==
    {[prices |-> [i \in 1..n |-> 100], trigger |-> g, commission |-> c, tax |-> t] :
        n \in 1..ScenarioLen, g \in ScenarioTriggers,
        c \in {<<0, 1>>, <<57, 40000>>, <<1, 5>>, <<1, 2>>},
        t \in {<<0, 1>>, <<3, 1000>>}}
    \cup
    {[prices |-> ps, trigger |-> g, commission |-> c, tax |-> t] :
        ps \in SeqsUpTo({100, 200}, 2) \ {<<>>}, g \in ScenarioTriggers,
        c \in {<<0, 1>>, <<1, 5>>}, t \in {<<0, 1>>, <<1, 10>>}}

ScenarioInit ==
    /\ \E in \in ScenarioInputs :
          /\ prices = in.prices
          /\ trigger = in.trigger
          /\ commission = in.commission
          /\ tax = in.tax
    /\ init_cash = 1000000
    /\ stock_ratio = <<1, 2>>
    /\ cash = Zero /\ shares = Zero /\ rebalances = <<>> /\ equity = <<>>
    /\ pc = "call" /\ error = "none"
    /\ mpc = "direct" /\ s_lev = <<>> /\ s_bm = <<>> /\ eq_bm = <<>>
    /\ stats = <<>> /\ message = "none"

ScenarioNext == Enter \/ RunPeriod \/ Return

ScenarioSpec == ScenarioInit /\ [][ScenarioNext]_vars

----------------------------------------------------------------------------
(* The page: the sidebar (lines 48-75) and the main run block (157-176).   *)
(* Rendering (lines 178-273) reads the results and changes none of them.   *)

\* len(s_lev) < 10
MinPoints == 10

MaxFetched == 11

\* st.number_input(min_value=10000, max_value=100000000, value=1000000)
InitCashInput == {10000, 1000000}

\* st.slider(min_value=10, max_value=90, step=5) / 100
StockRatioSlider == {Norm(k, 100) : k \in {j \in 10..90 : j % 5 = 0}}

\* st.slider(min_value=10, max_value=100, step=5) / 100
TriggerSlider == {Norm(k, 100) : k \in {j \in 10..100 : j % 5 = 0}}

\* commission = 0.001425; tax = 0.003
CommissionRate == <<57, 40000>>
TaxRate == <<3, 1000>>

\* What fetch_data can return: two series on the same n dates.  The prices
\* move by one percent at most, so no trigger the sidebar allows fires; the
\* trades themselves are explored in the direct calls above.
Fetched ==
    UNION {{[lev |-> [i \in 1..n |-> IF i > k THEN 101 ELSE 100],
             bm  |-> [i \in 1..n |-> 50]] : k \in {0, n \div 2}} :
           n \in 0..MaxFetched}

\* run_buyhold: the values of the equity curve
RunBuyhold(ps, ic, c) ==
    LET sh == RDiv(RMul(Q(ic), RSub(One, c)), Q(ps[1]))
    IN  [i \in 1..Len(ps) |-> [date |-> i, value |-> RMul(sh, Q(ps[i]))]]

\* calc_stats: final and its display f'{final:,.0f}'.  (The return, CAGR,
\* drawdown and Sharpe figures are derived from the same curve and are left
\* out: no state depends on them.)
CalcStats(eq, name) ==
    [name |-> name, final |-> RoundHalfEven(eq[Len(eq)].value)]

MainInit ==
    /\ init_cash \in InitCashInput
    /\ stock_ratio \in StockRatioSlider
    /\ trigger \in TriggerSlider
    /\ commission = CommissionRate
    /\ tax = TaxRate
    /\ prices = <<>>
    /\ cash = Zero /\ shares = Zero /\ rebalances = <<>> /\ equity = <<>>
    /\ pc = "idle" /\ error = "none"
    /\ mpc = "sidebar" /\ s_lev = <<>> /\ s_bm = <<>> /\ eq_bm = <<>>
    /\ stats = <<>> /\ message = "none"

\* run_btn is False: lines 275-276
NotClicked ==
    /\ mpc = "sidebar"
    /\ mpc' = "stopped"
    /\ message' = "set_parameters"
    /\ UNCHANGED <<args, locals, s_lev, s_bm, eq_bm, stats>>

\* run_btn is True: line 157
Clicked ==
    /\ mpc = "sidebar"
    /\ mpc' = "fetch"
    /\ UNCHANGED <<args, locals, s_lev, s_bm, eq_bm, stats, message>>

\* line 160
FetchData ==
    /\ mpc = "fetch"
    /\ \E f \in Fetched : s_lev' = f.lev /\ s_bm' = f.bm
    /\ mpc' = "check"
    /\ UNCHANGED <<args, locals, eq_bm, stats, message>>

\* lines 161-163
FetchFails ==
    /\ mpc = "fetch"
    /\ message' = "download_failed"
    /\ mpc' = "stopped"
    /\ UNCHANGED <<args, locals, s_lev, s_bm, eq_bm, stats>>

\* lines 165-167
InsufficientData ==
    /\ mpc = "check"
    /\ Len(s_lev) < MinPoints
    /\ message' = "insufficient_data"
    /\ mpc' = "stopped"
    /\ UNCHANGED <<args, locals, s_lev, s_bm, eq_bm, stats>>

\* variant: the length check dropped
CallRunStrategyUnguarded ==
    /\ mpc = "check"
    /\ prices' = s_lev
    /\ pc' = "call"
    /\ mpc' = "strategy"
    /\ UNCHANGED <<init_cash, stock_ratio, trigger, commission, tax,
                   cash, shares, rebalances, equity, error,
                   s_lev, s_bm, eq_bm, stats, message>>

\* lines 170-171: the call of run_strategy
CallRunStrategy ==
    /\ mpc = "check"
    /\ ~(Len(s_lev) < MinPoints)
    /\ prices' = s_lev
    /\ pc' = "call"
    /\ mpc' = "strategy"
    /\ UNCHANGED <<init_cash, stock_ratio, trigger, commission, tax,
                   cash, shares, rebalances, equity, error,
                   s_lev, s_bm, eq_bm, stats, message>>

\* line 172, once run_strategy has returned
CallRunBuyhold ==
    /\ mpc = "strategy"
    /\ pc = "done"
    /\ eq_bm' = RunBuyhold(s_bm, init_cash, commission)
    /\ mpc' = "stats"
    /\ UNCHANGED <<args, locals, s_lev, s_bm, stats, message>>

\* lines 175-176
CallCalcStats ==
    /\ mpc = "stats"
    /\ stats' = <<CalcStats(equity, "lev"), CalcStats(eq_bm, "bm")>>
    /\ mpc' = "render"
    /\ UNCHANGED <<args, locals, s_lev, s_bm, eq_bm, message>>

MainNext ==
    \/ NotClicked \/ Clicked \/ FetchData \/ FetchFails \/ InsufficientData
    \/ CallRunStrategy \/ Enter \/ RunPeriod \/ Return
    \/ CallRunBuyhold \/ CallCalcStats

MainSpec == MainInit /\ [][MainNext]_vars

----------------------------------------------------------------------------
(* Properties.                                                             *)

\* the documented configuration ranges
ValidConfig ==
    /\ init_cash > 0
    /\ RGt(stock_ratio, Zero) /\ RLt(stock_ratio, One)
    /\ RGt(trigger, Zero)
    /\ RGeq(commission, Zero) /\ RLt(commission, One)
    /\ RGeq(tax, Zero) /\ RLt(tax, One)

Started == pc \in {"loop", "done"}

\* this step is one pass of the loop body
PeriodStep == pc = "loop" /\ Len(equity') = Len(equity) + 1

HasEvent(a) == \E j \in 1..Len(rebalances) : rebalances[j].action = a

\* C1 as stated: under every documented configuration, cash >= 0 and
\* shares >= 0 after every period.
C1_Original ==
    (ValidConfig /\ Started) => (RGeq(cash, Zero) /\ RGeq(shares, Zero))

\* C1 amended: under every documented configuration whose commission and tax
\* rates sum to at most 1, cash >= 0 and shares >= 0 after every period, in the
\* portfolio and in every equity point emitted.
C1_NonNegative ==
    (ValidConfig /\ RLeq(RAdd(commission, tax), One) /\ Started) =>
        /\ RGeq(cash, Zero) /\ RGeq(shares, Zero)
        /\ \A i \in 1..Len(equity) :
              RGeq(equity[i].cash, Zero) /\ RGeq(equity[i].stock_value, Zero)

C1_Witness ==
    /\ ValidConfig /\ RLeq(RAdd(commission, tax), One) /\ RGt(commission, Zero)
    /\ pc = "done"
    /\ HasEvent("buy") /\ HasEvent("sell")

\* C2: the rebalance log never holds an event dated at the first period.
C2_NoEventAtFirstPeriod ==
    \A j \in 1..Len(rebalances) : rebalances[j].date # 1

\* the deviation at the first period reached the trigger, and the log is not
\* empty
C2_Witness ==
    /\ Len(equity) >= 1 /\ Len(rebalances) >= 1
    /\ ~IsZero(stock_ratio) /\ ~IsZero(equity[1].value)
    /\ RGeq(Deviation(RDiv(equity[1].stock_value, equity[1].value), stock_ratio),
            trigger)

\* C3: a buy that fires with cash < cost changes neither shares nor cash, adds
\* no event, still adds the period's equity point and leaves the loop running;
\* a buy that fires with cash >= cost is filled in full.
C3_SkippedBuyIsNoOp ==
    [][PeriodStep =>
        LET price == Q(prices[Period])
            diff  == Diff(shares, cash, price, stock_ratio)
        IN  (PeriodFires(shares, cash, price, Period) /\ RGt(diff, Zero)) =>
              IF RLt(cash, Cost(diff, commission))
              THEN /\ shares' = shares
                   /\ cash' = cash
                   /\ rebalances' = rebalances
                   /\ equity' = Append(equity,
                          [date |-> Period, value |-> Total(shares, cash, price),
                           stock_value |-> StockVal(shares, price), cash |-> cash])
                   /\ pc' = "loop"
              ELSE /\ shares' = RAdd(shares, NewSh(diff, price, commission))
                   /\ cash' = RSub(cash, Cost(diff, commission))
                   /\ Len(rebalances') = Len(rebalances) + 1
    ]_vars

\* the holdings before period i, read back from the equity curve
SharesBefore(i) == RDiv(equity[i - 1].stock_value, Q(prices[i - 1]))
CashBefore(i) == equity[i - 1].cash

\* a buy was skipped at some period and the next period was processed
C3_Witness ==
    /\ ValidConfig
    /\ \E i \in 2..Len(equity) :
          LET price == Q(prices[i])
              diff  == Diff(SharesBefore(i), CashBefore(i), price, stock_ratio)
          IN  /\ PeriodFires(SharesBefore(i), CashBefore(i), price, i)
              /\ RGt(diff, Zero)
              /\ RLt(CashBefore(i), RDiv(diff, RSub(One, commission)))
              /\ equity[i].cash = CashBefore(i)
              /\ Len(equity) > i

\* C7: one equity point per period, in input order; the log's dates increase
\* strictly, lie among the periods processed and exclude the first; at the end
\* every period has its point and the log is shorter than the series.
C7_OnePointPerPeriod ==
    Started =>
        /\ Len(equity) <= Len(prices)
        /\ \A i \in 1..Len(equity) : equity[i].date = i
        /\ \A j \in 1..Len(rebalances) : rebalances[j].date \in 2..Len(equity)
        /\ \A j \in 1..Len(rebalances) : \A k \in 1..Len(rebalances) :
              j < k => rebalances[j].date < rebalances[k].date
        /\ pc = "done" =>
              /\ Len(equity) = Len(prices)
              /\ Len(rebalances) <= Len(prices) - 1

C7_Witness ==
    /\ pc = "done"
    /\ Len(prices) >= 3
    /\ Len(rebalances) = Len(prices) - 1

\* C9: with stock_ratio <= 1 - commission and cash >= 0, a trigger that fires
\* always adds exactly one event, dated at that period (a fired buy is never
\* skipped).
C9_FiredBuyNeverSkipped ==
    [][(/\ PeriodStep
        /\ RLeq(stock_ratio, RSub(One, commission))
        /\ RGeq(cash, Zero)
        /\ PeriodFires(shares, cash, Q(prices[Period]), Period)) =>
            /\ Len(rebalances') = Len(rebalances) + 1
            /\ rebalances'[Len(rebalances')].date = Period
    ]_vars

\* a buy was executed with stock_ratio exactly 1 - commission
C9_Witness ==
    /\ ValidConfig
    /\ stock_ratio = RSub(One, commission)
    /\ Len(rebalances) >= 1
    /\ rebalances[Len(rebalances)].action = "buy"

\* C10: with commission in [0,1) and tax >= 0, the total at the period's price
\* after the loop body is at most the total before it; it is the same when no
\* trade executes, lower by diff/(1-c) - diff*(1-c) on a buy and by
\* |diff|*(c+tax) on a sell.
C10_NoValueCreated ==
    [][(/\ PeriodStep
        /\ RGeq(commission, Zero) /\ RLt(commission, One)
        /\ RGeq(tax, Zero)) =>
          LET price  == Q(prices[Period])
              before == Total(shares, cash, price)
              after  == Total(shares', cash', price)
              diff   == Diff(shares, cash, price, stock_ratio)
              loss   == RSub(before, after)
          IN  /\ RLeq(after, before)
              /\ Len(rebalances') = Len(rebalances) => after = before
              /\ Len(rebalances') # Len(rebalances) =>
                    IF rebalances'[Len(rebalances')].action = "buy"
                    THEN loss = RSub(RDiv(diff, RSub(One, commission)),
                                     RMul(diff, RSub(One, commission)))
                    ELSE loss = RMul(RAbs(diff), RAdd(commission, tax))
    ]_vars

\* both kinds of trade were executed under positive commission and tax
C10_Witness ==
    /\ ValidConfig
    /\ RGt(commission, Zero) /\ RGt(tax, Zero)
    /\ Len(rebalances) >= 2
    /\ HasEvent("buy") /\ HasEvent("sell")

\* Scenario B's inputs
ScenarioB ==
    /\ prices = <<100, 200>>
    /\ init_cash = 1000000 /\ stock_ratio = <<1, 2>> /\ trigger = <<1, 10>>
    /\ commission = Zero /\ tax = Zero

\* C4: in scenario B the portfolio holds 5000 shares and 500000 cash after the
\* first period, and the second period sells 1250 shares for 250000, leaving
\* 3750 shares and 750000 cash (stock value 750000 of a total 1500000), with
\* one sell event in the log.
C4_ScenarioB ==
    ScenarioB =>
        /\ Len(equity) >= 1 =>
              /\ equity[1].stock_value = Q(500000)
              /\ equity[1].cash = Q(500000)
        /\ (pc = "loop" /\ Len(equity) <= 1) =>
              /\ shares = Q(5000) /\ cash = Q(500000)
              /\ rebalances = <<>>
        /\ Len(equity) = 2 =>
              /\ shares = RSub(Q(5000), Q(1250)) /\ shares = Q(3750)
              /\ cash = RAdd(Q(500000), Q(250000)) /\ cash = Q(750000)
              /\ equity[2].stock_value = Q(750000)
              /\ equity[2].value = Q(1500000)
              /\ Len(rebalances) = 1
              /\ rebalances[1].action = "sell"
              /\ rebalances[1].date = 2
              /\ rebalances[1].amount = 250000
        /\ pc = "done" => Len(equity) = 2

C4_Witness == ScenarioB /\ pc = "done" /\ Len(rebalances) = 1

\* a series constant at 100
ConstantAt100 == prices # <<>> /\ \A i \in 1..Len(prices) : prices[i] = 100

\* the initial capital less the commission on the entry purchase
EntryFrictionOnly ==
    equity[Len(equity)].value =
        RSub(Q(init_cash), RMul(commission, RMul(Q(init_cash), stock_ratio)))

\* C5 as stated: on the series constant at 100 for 5 periods, for every trigger
\* threshold > 0 and every commission rate, the log is empty and the final total
\* is the initial capital less the entry commission.
C5_Original ==
    (pc = "done" /\ ConstantAt100 /\ Len(prices) = 5 /\ RGt(trigger, Zero)) =>
        (rebalances = <<>> /\ EntryFrictionOnly)

\* the relative deviation the entry commission c leaves at target ratio 1/2
EntryDeviation == RDiv(commission, RSub(Q(2), commission))

\* C5 amended: on a series constant at 100 (5 periods, or any other length),
\* for every commission rate c and every trigger threshold above c/(2-c), the
\* log is empty and the final total is the initial capital less the entry
\* commission.
C5_ScenarioA ==
    (pc = "done" /\ ConstantAt100 /\ RGt(trigger, EntryDeviation)) =>
        (rebalances = <<>> /\ EntryFrictionOnly)

C5_Witness ==
    /\ pc = "done" /\ ConstantAt100 /\ Len(prices) = 5
    /\ commission = <<1, 5>> /\ trigger = <<1, 2>>
    /\ rebalances = <<>>

\* target_ratio outside (0,1), a negative rate, or init_cash not positive
InvalidParameters ==
    \/ ~(RGt(stock_ratio, Zero) /\ RLt(stock_ratio, One))
    \/ RLt(commission, Zero) \/ RLt(tax, Zero)
    \/ init_cash <= 0

\* C6 as stated: with an invalid parameter the run fails before the simulation
\* starts: no period is processed, no equity point is emitted, no trade is
\* executed, and the run does not return.
C6_FailsFast ==
    InvalidParameters =>
        (equity = <<>> /\ rebalances = <<>> /\ pc # "done")

\* run_strategy, run_buyhold or calc_stats has been invoked
Invoked ==
    \/ pc # "idle"
    \/ mpc \in {"strategy", "stats", "render"}
    \/ equity # <<>> \/ eq_bm # <<>> \/ stats # <<>>

\* C8: a fetched series shorter than 10 points, the empty one included, is
\* rejected with the insufficient-data message, and none of run_strategy,
\* run_buyhold and calc_stats is invoked on it.
C8_InsufficientData ==
    /\ [](Invoked => Len(s_lev) >= 10)
    /\ [][(mpc = "check" /\ Len(s_lev) < 10) =>
            (mpc' = "stopped" /\ message' = "insufficient_data" /\ ~Invoked')]_vars

\* a series of 9 points was rejected
C8_Witness ==
    /\ mpc = "stopped" /\ message = "insufficient_data"
    /\ Len(s_lev) = 9
    /\ ~Invoked

====
